---- MODULE Spec2Model ----
(***************************************************************************)
(* Job orchestration of nanocld (src/bin/nanocld/src/utils/job.rs): the    *)
(* instance resolver, the state classifier, the create / start / delete    *)
(* fan-outs and the merged log / wait streams, over a container runtime    *)
(* and a job store.                                                        *)
(***************************************************************************)
EXTENDS Integers, Sequences, FiniteSets, TLC

\* ------------------------------------------------------------------ bounds

\* Instances (containers) a job has in the runtime, and container
\* specifications a job declares.
MaxInst == 2
\* Elements the merged log / wait stream yields before the consumer is
\* assumed to stop pulling.
MaxMerged == 3
\* Operations (create, delete) invoked one after another on the job.
MaxOps == 3
\* The length of the longest metric kind given to try_new_node.
MaxKind == 5

\* ----------------------------------------------------------------- options

\* Rust's Option<T>: None is the empty sequence, Some(v) the sequence <<v>>.
None == <<>>
Some(v) == <<v>>
\* Option::unwrap_or / unwrap_or_default with the default given.
UnwrapOr(o, d) == IF o = None THEN d ELSE o[1]

\* ------------------------------------------------- runtime container state

\* Exit codes and error strings the runtime may report.
ExitCodes == {0, 1}
ErrorStrings == {"", "oom"}
OptionOf(S) == {None} \cup {Some(v) : v \in S}

\* ContainerState of bollard: the fields the core reads, each an Option.
ContainerState == [running : OptionOf(BOOLEAN),
                   exit_code : OptionOf(ExitCodes),
                   error : OptionOf(ErrorStrings)]
\* ContainerState::default(): every field None.
DefaultState == [running |-> None, exit_code |-> None, error |-> None]
\* ContainerInspectResponse.state is itself an Option<ContainerState>.
InspectStates == OptionOf(ContainerState)

\* inspect.state.unwrap_or_default().running.unwrap_or_default()
IsRunning(state) == UnwrapOr(UnwrapOr(state, DefaultState).running, FALSE)

\* ---------------------------------------------------------------- state

VARIABLES
  store,       \* the job store: the set of Job records
  containers,  \* the runtime: the set of containers
  calls,       \* the runtime calls issued since the last invocation, in order
  nextId,      \* the next container id the runtime assigns
  st,          \* the frame of start_by_name
  cr,          \* the frame of create
  dl,          \* the frame of delete_by_name
  sm,          \* the frame of logs_by_name / wait and its merged stream
  cn,          \* the frame of count_instances
  ls,          \* the frame of list
  ib,          \* the frame of inspect_by_name
  fs,          \* the user's files and environment: HOME, context files, conf.yml
  cx,          \* the frame of Context::use
  mt,          \* the frame of MetricNodePartial::try_new_node
  ops          \* the number of operations invoked so far

vars == <<store, containers, calls, nextId, st, cr, dl, sm, cn, ls, ib, fs, cx, mt, ops>>

\* ------------------------------------------------------- count_instances

\* The counters of count_instances before its loop.
CountZero == [instance_failed |-> 0, instance_success |-> 0, instance_running |-> 0]

\* The loop body without the `continue` of the running branch.
CountBodyNoContinue(acc, inspectState) ==
  LET state == UnwrapOr(inspectState, DefaultState)
      run == IF UnwrapOr(state.running, FALSE) THEN 1 ELSE 0
      ok == IF state.exit_code # None /\ state.exit_code[1] = 0 THEN 1 ELSE 0
      ko == IF state.exit_code # None /\ state.exit_code[1] # 0 THEN 1 ELSE 0
      er == IF state.error # None /\ state.error[1] # "" THEN 1 ELSE 0
  IN [instance_failed |-> acc.instance_failed + ko + er,
      instance_success |-> acc.instance_success + ok,
      instance_running |-> acc.instance_running + run]

\* The loop body counting a running instance's exit code as well.
CountBodyRunningExit(acc, inspectState) ==
  LET state == UnwrapOr(inspectState, DefaultState)
      run == IF UnwrapOr(state.running, FALSE) THEN 1 ELSE 0
      ok == IF state.exit_code # None /\ state.exit_code[1] = 0 THEN 1 ELSE 0
      ko == IF state.exit_code # None /\ state.exit_code[1] # 0 THEN 1 ELSE 0
      er == IF run = 0 /\ state.error # None /\ state.error[1] # "" THEN 1 ELSE 0
  IN [instance_failed |-> acc.instance_failed + ko + er,
      instance_success |-> acc.instance_success + ok,
      instance_running |-> acc.instance_running + run]

\* The loop body reading the error string only when no exit code is present.
CountBodyNoDouble(acc, inspectState) ==
  LET state == UnwrapOr(inspectState, DefaultState)
      run == IF UnwrapOr(state.running, FALSE) THEN 1 ELSE 0
      ok == IF run = 0 /\ state.exit_code # None /\ state.exit_code[1] = 0 THEN 1 ELSE 0
      ko == IF run = 0 /\ state.exit_code # None /\ state.exit_code[1] # 0 THEN 1 ELSE 0
      er == IF run = 0 /\ state.exit_code = None /\ state.error # None /\ state.error[1] # ""
            THEN 1 ELSE 0
  IN [instance_failed |-> acc.instance_failed + ko + er,
      instance_success |-> acc.instance_success + ok,
      instance_running |-> acc.instance_running + run]

\* One iteration of the loop of count_instances over one inspected instance.
CountBody(acc, inspectState) ==
  LET state == UnwrapOr(inspectState, DefaultState)
  IN IF UnwrapOr(state.running, FALSE)
     THEN [acc EXCEPT !.instance_running = @ + 1]
     ELSE LET a1 == IF state.exit_code # None
                    THEN IF state.exit_code[1] = 0
                         THEN [acc EXCEPT !.instance_success = @ + 1]
                         ELSE [acc EXCEPT !.instance_failed = @ + 1]
                    ELSE acc
          IN IF state.error # None /\ state.error[1] # ""
             THEN [a1 EXCEPT !.instance_failed = @ + 1]
             ELSE a1

\* The loop of count_instances over instances[1..n].
RECURSIVE CountLoop(_, _)
CountLoop(instances, n) ==
  IF n = 0 THEN CountZero ELSE CountBody(CountLoop(instances, n - 1), instances[n])

\* count_instances: (total, failed, success, running).
CountInstances(instances) ==
  LET acc == CountLoop(instances, Len(instances))
  IN <<Len(instances), acc.instance_failed, acc.instance_success, acc.instance_running>>

\* The inputs of count_instances: the inspect states of up to MaxInst instances.
CountInputs == UNION {[1..n -> InspectStates] : n \in 0..MaxInst}

CnIdle == [pc |-> "idle", instances |-> <<>>, i |-> 0, acc |-> CountZero,
           ret |-> <<0, 0, 0, 0>>]

\* count_instances is entered with its counters at zero.
CountEnter(instances) ==
  [pc |-> "loop", instances |-> instances, i |-> 0, acc |-> CountZero,
   ret |-> <<0, 0, 0, 0>>]

\* One iteration of the for loop.
CountIter ==
  /\ cn.pc = "loop"
  /\ cn.i < Len(cn.instances)
  /\ cn' = [cn EXCEPT !.i = @ + 1, !.acc = CountBody(@, cn.instances[cn.i + 1])]
  /\ UNCHANGED <<store, containers, calls, nextId, st, cr, dl, sm, ops, ls, ib, fs, cx, mt>>

\* The loop has ended: the tuple is returned.
CountReturn ==
  /\ cn.pc = "loop"
  /\ cn.i = Len(cn.instances)
  /\ cn' = [cn EXCEPT !.pc = "done",
              !.ret = <<Len(cn.instances), cn.acc.instance_failed,
                        cn.acc.instance_success, cn.acc.instance_running>>]
  /\ UNCHANGED <<store, containers, calls, nextId, st, cr, dl, sm, ops, ls, ib, fs, cx, mt>>

\* ------------------------------------------------------------- job store

\* The job names used: "job1" is the job operated on, "job2" another name.
Names == {"job1", "job2"}

\* A Job record of the store: its name, its update stamp and its ordered
\* container specifications.
JobRecord(name, specs) == [name |-> name, updated_at |-> 0, containers |-> specs]

\* repositories::job::find_by_name: the record, or not-found.
StoreFind(s, name) ==
  IF s[name] = None THEN [ok |-> FALSE, job |-> None, err |-> "not_found"]
  ELSE [ok |-> TRUE, job |-> s[name], err |-> ""]

\* repositories::job::create: names are unique.
StoreCreate(s, item) ==
  IF s[item.name] # None THEN [ok |-> FALSE, store |-> s, err |-> "conflict"]
  ELSE [ok |-> TRUE, store |-> [s EXCEPT ![item.name] = Some(JobRecord(item.name, item.containers))],
        err |-> ""]

\* repositories::job::update_by_name with a new updated_at.
StoreTouch(s, name) ==
  IF s[name] = None THEN [ok |-> FALSE, store |-> s, err |-> "not_found"]
  ELSE [ok |-> TRUE, err |-> "",
        store |-> [s EXCEPT ![name] = Some([@[1] EXCEPT !.updated_at = @ + 1])]]

\* repositories::job::delete_by_name.
StoreDelete(s, name) == [ok |-> TRUE, store |-> [s EXCEPT ![name] = None], err |-> ""]

EmptyStore == [n \in Names |-> None]

\* ---------------------------------------------------------------- runtime

JobLabel == "io.nanocl.job"

\* A label map is a set of <<key, value>> pairs with one value per key.
LabelGet(labels, key) ==
  IF \E p \in labels : p[1] = key
  THEN Some((CHOOSE p \in labels : p[1] = key)[2]) ELSE None
\* An insert that keeps the value a key already has.
LabelInsertIfAbsent(labels, key, value) ==
  IF \E p \in labels : p[1] = key THEN labels ELSE labels \cup {<<key, value>>}

\* HashMap::insert: the key's former value is replaced.
LabelInsert(labels, key, value) ==
  {p \in labels : p[1] # key} \cup {<<key, value>>}

\* A container of the runtime. names holds each name as a sequence of
\* characters; spec is the index of the container specification it was
\* created from.
Container(id, labels, spec, state) ==
  [id |-> id, labels |-> labels, spec |-> spec, state |-> state,
   names |-> Some(<< <<"/", "c", ToString(id)>> >>)]

\* The containers of set S as a sequence, by ascending id.
RECURSIVE ById(_)
ById(S) ==
  IF S = {} THEN <<>>
  ELSE LET c == CHOOSE x \in S : \A y \in S : x.id <= y.id
       IN <<c>> \o ById(S \ {c})

\* list_instances: the containers labelled io.nanocl.job=<name>, whatever
\* their run state (all: true).
ListInstances(cs, name) ==
  ById({c \in cs : LabelGet(c.labels, JobLabel) = Some(name)})

\* The container of id `id`, as an Option.
ContainerOf(cs, id) ==
  IF \E c \in cs : c.id = id THEN Some(CHOOSE c \in cs : c.id = id) ELSE None

\* A record of a runtime call in the log of calls.
Call(op, id) == [op |-> op, id |-> id]

\* Looking for an error at the call that completed last only.
AnyErrLast(results) == results # <<>> /\ ~results[Len(results)].ok

\* Whether a sequence of results holds an error (collect::<Result<Vec, _>>).
AnyErr(results) == \E k \in 1..Len(results) : ~results[k].ok

\* ------------------------------------------------------- inspect_instances

\* The (detail, summary) pair of one inspected instance, or the error of its
\* inspect call. The detail is read from the runtime when the call completes.
InspectResult(cs, summary, ok) ==
  LET c == ContainerOf(cs, summary.id)
  IN IF ok /\ c # None
     THEN [ok |-> TRUE, id |-> summary.id, spec |-> summary.spec,
           state |-> c[1].state, summary |-> summary]
     ELSE [ok |-> FALSE, id |-> summary.id, spec |-> summary.spec,
           state |-> None, summary |-> summary]

\* The listed instances whose inspect call has not completed yet.
InspectPending(listed, results) ==
  {k \in 1..Len(listed) : \A r \in 1..Len(results) : results[r].id # listed[k].id}

\* ---------------------------------------------------------- start_by_name

StIdle == [pc |-> "idle", name |-> "", listed |-> <<>>, vec |-> <<>>,
           fut |-> <<>>, res |-> "none"]

\* start_by_name is called: find_by_name, then (in inspect_instances) the
\* list_instances call.
StartByName(name) ==
  /\ st.pc = "idle"
  /\ IF ~StoreFind(store, name).ok
     THEN st' = [st EXCEPT !.pc = "done", !.name = name, !.res = "err_not_found"]
     ELSE st' = [st EXCEPT !.pc = "list", !.name = name]
  /\ UNCHANGED <<store, containers, calls, nextId, cr, dl, sm, cn, ops, ls, ib, fs, cx, mt>>

\* list_containers answers: the instances, or a runtime error.
StartList(ok) ==
  /\ st.pc = "list"
  /\ calls' = Append(calls, Call("list", 0))
  /\ IF ok
     THEN st' = [st EXCEPT !.pc = "inspect", !.listed = ListInstances(containers, st.name)]
     ELSE st' = [st EXCEPT !.pc = "done", !.res = "err_list"]
  /\ UNCHANGED <<store, containers, nextId, cr, dl, sm, cn, ops, ls, ib, fs, cx, mt>>

\* One inspect_container call of the FuturesUnordered completes; the results
\* are collected in completion order.
StartInspect(k, ok) ==
  /\ st.pc = "inspect"
  /\ k \in InspectPending(st.listed, st.vec)
  /\ calls' = Append(calls, Call("inspect", st.listed[k].id))
  /\ st' = [st EXCEPT !.vec = Append(@, InspectResult(containers, st.listed[k], ok))]
  /\ UNCHANGED <<store, containers, nextId, cr, dl, sm, cn, ops, ls, ib, fs, cx, mt>>

\* Every inspect call has completed: Vec<Result> becomes Result<Vec>, and on
\* Ok the start futures are collected into a FuturesOrdered.
StartInspected ==
  /\ st.pc = "inspect"
  /\ InspectPending(st.listed, st.vec) = {}
  /\ IF AnyErr(st.vec)
     THEN st' = [st EXCEPT !.pc = "done", !.res = "err_inspect"]
     ELSE st' = [st EXCEPT !.pc = "start", !.fut = [k \in 1..Len(st.vec) |-> "todo"]]
  /\ UNCHANGED <<store, containers, calls, nextId, cr, dl, sm, cn, ops, ls, ib, fs, cx, mt>>

\* The first poll of a start future that calls start_container whatever the
\* inspected state is.
StartFirstPollAlways(inspect) == "issued"

\* The first poll of one start future: an instance inspected as running
\* returns Ok at once, any other issues its start_container call.
StartFirstPoll(inspect) == IF IsRunning(inspect.state) THEN "skip" ELSE "issued"

\* The start futures a FuturesOrdered may poll for the first time: it polls
\* its futures concurrently, in the order they were pushed, and orders only
\* their outputs.
StartPollable(fut) ==
  {k \in 1..Len(fut) : fut[k] = "todo" /\ \A j \in 1..(k - 1) : fut[j] # "todo"}

\* The FuturesOrdered polls a start future for the first time.
StartPoll(k) ==
  /\ st.pc = "start"
  /\ k \in StartPollable(st.fut)
  /\ st' = [st EXCEPT !.fut[k] = StartFirstPoll(st.vec[k])]
  /\ calls' = IF StartFirstPoll(st.vec[k]) = "issued"
              THEN Append(calls, Call("start", st.vec[k].id)) ELSE calls
  /\ UNCHANGED <<store, containers, nextId, cr, dl, sm, cn, ops, ls, ib, fs, cx, mt>>

\* The runtime's container after a successful start.
Started(c) == [c EXCEPT !.state = Some([UnwrapOr(@, DefaultState) EXCEPT !.running = Some(TRUE)])]

\* A start_container call completes, with Ok or with a runtime error.
StartComplete(k, ok) ==
  /\ st.pc = "start"
  /\ k \in 1..Len(st.fut)
  /\ st.fut[k] = "issued"
  /\ st' = [st EXCEPT !.fut[k] = IF ok THEN "ok" ELSE "err"]
  /\ containers' = IF ok
                   THEN {IF c.id = st.vec[k].id THEN Started(c) ELSE c : c \in containers}
                   ELSE containers
  /\ UNCHANGED <<store, calls, nextId, cr, dl, sm, cn, ops, ls, ib, fs, cx, mt>>

\* The end of start_by_name updating updated_at before the results of the
\* start calls are looked at.
StartOutcomeTouchFirst(fut, s, name) ==
  [res |-> IF \E k \in 1..Len(fut) : fut[k] = "err" THEN "err_start" ELSE "ok",
   store |-> StoreTouch(s, name).store]

\* The end of start_by_name: the first error of the ordered results is
\* returned, else updated_at is updated.
StartOutcome(fut, s, name) ==
  IF \E k \in 1..Len(fut) : fut[k] = "err"
  THEN [res |-> "err_start", store |-> s]
  ELSE IF StoreTouch(s, name).ok
       THEN [res |-> "ok", store |-> StoreTouch(s, name).store]
       ELSE [res |-> "err_not_found", store |-> s]

\* Every start future has completed: start_by_name returns.
StartFinish ==
  /\ st.pc = "start"
  /\ \A k \in 1..Len(st.fut) : st.fut[k] \in {"skip", "ok", "err"}
  /\ st' = [st EXCEPT !.pc = "done", !.res = StartOutcome(st.fut, store, st.name).res]
  /\ store' = StartOutcome(st.fut, store, st.name).store
  /\ UNCHANGED <<containers, calls, nextId, cr, dl, sm, cn, ops, ls, ib, fs, cx, mt>>

\* A container specification of a job: the label map the core augments.
PlainSpec == [labels |-> None]

\* prev is what the create called just before with the same job name
\* returned.
CrIdle == [pc |-> "idle", item |-> [name |-> "", containers |-> <<>>], fut |-> <<>>,
           made |-> <<>>, res |-> "none", prev |-> "none"]
\* prev is what the delete_by_name called just before on the same name
\* returned.
DlIdle == [pc |-> "idle", name |-> "", listed |-> <<>>, fut |-> <<>>, res |-> "none",
           prev |-> "none"]
\* The files and environment of a user who has none: used by the
\* specifications of the daemon, which read none of them.
FsNone == [home |-> FALSE, contexts |-> <<>>, conf |-> None]
CxIdle == [pc |-> "idle", name |-> "", res |-> "none"]
MtIdle == [pc |-> "idle", node_name |-> "", item |-> <<>>, ret |-> <<>>]
LsIdle == [pc |-> "idle", jobs |-> <<>>, fut |-> <<>>, vec |-> <<>>, res |-> "none",
           ret |-> <<>>]
IbIdle == [pc |-> "idle", name |-> "", listed |-> <<>>, vec |-> <<>>, res |-> "none",
           ret |-> <<>>]
SmIdle == [pc |-> "idle", kind |-> "", name |-> "", listed |-> <<>>, queue |-> <<>>,
           sent |-> <<>>, fin |-> <<>>, merged |-> <<>>, res |-> "none"]

\* The inspect states the instances of a job start from in the runtime.
StartStates ==
  {None, Some(DefaultState),
   Some([running |-> Some(TRUE), exit_code |-> None, error |-> None]),
   Some([running |-> Some(FALSE), exit_code |-> Some(0), error |-> Some("")])}

\* A container of another job, which no operation on "job1" may touch.
Foreign == Container(0, {<<JobLabel, "job2">>}, 1, Some([running |-> Some(FALSE), exit_code |-> None, error |-> None]))

\* A runtime holding n instances of "job1", instance i created from the
\* i-th container specification, and the store holding the job.
InitRuntime(n, states) ==
  /\ store = [EmptyStore EXCEPT !["job1"] = Some(JobRecord("job1", [i \in 1..n |-> PlainSpec]))]
  /\ containers = {Container(i, {<<JobLabel, "job1">>}, i, states[i]) : i \in 1..n} \cup {Foreign}
  /\ nextId = n + 1
  /\ calls = <<>>

InitStart ==
  /\ \E n \in 0..MaxInst : \E states \in [1..n -> StartStates] : InitRuntime(n, states)
  /\ st = StIdle
  /\ cr = CrIdle
  /\ dl = DlIdle
  /\ sm = SmIdle
  /\ cn = CnIdle
  /\ ls = LsIdle
  /\ ib = IbIdle
  /\ fs = FsNone
  /\ cx = CxIdle
  /\ mt = MtIdle
  /\ ops = 0

NextStart ==
  \/ \E name \in Names : StartByName(name)
  \/ \E ok \in BOOLEAN : StartList(ok)
  \/ \E k \in 1..MaxInst + 1, ok \in BOOLEAN : StartInspect(k, ok)
  \/ StartInspected
  \/ \E k \in 1..MaxInst + 1 : StartPoll(k)
  \/ \E k \in 1..MaxInst + 1, ok \in BOOLEAN : StartComplete(k, ok)
  \/ StartFinish

\* start_by_name on a runtime holding the job's instances.
SpecStart == InitStart /\ [][NextStart]_vars

\* The number of calls `op` issued on container `id`.
NumCalls(op, id) == Cardinality({k \in 1..Len(calls) : calls[k] = Call(op, id)})

\* C1: the start call of an instance is issued only when the start call of
\* every not-running instance before it in the declared sequence of
\* container specifications has completed.
C1_StartSequenced ==
  \A j, k \in 1..Len(st.fut) :
    (/\ st.fut[j] \in {"issued", "ok", "err"}
     /\ st.vec[k].spec < st.vec[j].spec
     /\ ~IsRunning(st.vec[k].state))
    => st.fut[k] \in {"ok", "err"}

\* C2: once the instances are inspected, start_by_name issues exactly one
\* start call for each instance inspected as not running and none for an
\* instance inspected as running (nor for a container of another job), and it
\* fails in the start phase only if a start call it issued failed.
C2_OneStartPerStopped ==
  /\ \A c \in containers : NumCalls("start", c.id) <= 1
  /\ \A k \in 1..Len(st.fut) :
       IsRunning(st.vec[k].state) => st.fut[k] \in {"todo", "skip"} /\ NumCalls("start", st.vec[k].id) = 0
  /\ (st.pc = "done" /\ st.res \in {"ok", "err_start"}) =>
       /\ {st.vec[k].id : k \in 1..Len(st.vec)} =
            {c.id : c \in {x \in containers : <<JobLabel, st.name>> \in x.labels}}
       /\ \A c \in containers :
            NumCalls("start", c.id) =
              IF \E k \in 1..Len(st.vec) : st.vec[k].id = c.id /\ ~IsRunning(st.vec[k].state)
              THEN 1 ELSE 0
       /\ st.res = "err_start" <=> \E k \in 1..Len(st.fut) : st.fut[k] = "err"

\* A start_by_name that returned Ok over a running and a stopped instance,
\* with its one start call issued.
C2_Witness ==
  /\ st.pc = "done" /\ st.res = "ok"
  /\ \E j, k \in 1..Len(st.vec) :
       /\ IsRunning(st.vec[j].state) /\ st.fut[j] = "skip"
       /\ ~IsRunning(st.vec[k].state) /\ st.fut[k] = "ok"
       /\ NumCalls("start", st.vec[k].id) = 1

\* ------------------------------------------- count_instances on its own

InitCount ==
  /\ store = EmptyStore
  /\ containers = {}
  /\ calls = <<>>
  /\ nextId = 1
  /\ st = StIdle
  /\ cr = CrIdle
  /\ dl = DlIdle
  /\ sm = SmIdle
  /\ ls = LsIdle
  /\ ib = IbIdle
  /\ fs = FsNone
  /\ cx = CxIdle
  /\ mt = MtIdle
  /\ ops = 0
  /\ \E instances \in CountInputs : cn = CountEnter(instances)

NextCount == CountIter \/ CountReturn

\* count_instances over every collection of up to MaxInst inspected instances.
SpecCount == InitCount /\ [][NextCount]_vars

\* C9: the counters returned by count_instances satisfy
\* running + succeeded + failed <= 2 * total and running <= total, where
\* total is the number of instances of the input.
C9_CounterBounds ==
  cn.pc = "done" =>
    /\ cn.ret[1] = Len(cn.instances)
    /\ cn.ret[4] + cn.ret[3] + cn.ret[2] <= 2 * cn.ret[1]
    /\ cn.ret[4] <= cn.ret[1]

\* count_instances returned over instances that each count twice: the bound
\* 2 * total is met.
C9_Witness ==
  /\ cn.pc = "done"
  /\ cn.ret[1] > 0
  /\ cn.ret[2] = 2 * cn.ret[1]
  /\ cn.ret[3] = 0 /\ cn.ret[4] = 0

\* C10: an iteration of count_instances over an instance whose running flag
\* is true adds one to running and leaves succeeded and failed as they were,
\* whatever the instance's exit code and error string are.
C10_RunningOnly ==
  [][(/\ cn.pc = "loop"
      /\ cn'.i = cn.i + 1
      /\ IsRunning(cn.instances[cn'.i]))
     => /\ cn'.acc.instance_running = cn.acc.instance_running + 1
        /\ cn'.acc.instance_success = cn.acc.instance_success
        /\ cn'.acc.instance_failed = cn.acc.instance_failed]_vars

\* count_instances returned over one running instance with exit code 1 and
\* error "oom": it counts as running only.
C10_Witness ==
  /\ cn.pc = "done"
  /\ cn.instances = <<Some([running |-> Some(TRUE), exit_code |-> Some(1), error |-> Some("oom")])>>
  /\ cn.ret = <<1, 0, 0, 1>>

\* ------------------------------------------------------------------ create

\* The container specifications a job may declare: without labels, or with
\* user labels, one of them under the key io.nanocl.job.
ContainerSpecChoices == {PlainSpec, [labels |-> Some({<<JobLabel, "job2">>, <<"app", "web">>})]}

\* The JobPartial items create is called with.
Items == {[name |-> "job1", containers |-> [k \in 1..n |-> IF k = 1 THEN first ELSE PlainSpec]] :
            n \in 0..MaxInst, first \in ContainerSpecChoices}

\* The labels of the create_container request of one specification.
CreateLabels(spec, job_name) ==
  LabelInsert(UnwrapOr(spec.labels, {}), JobLabel, job_name)

\* The state the runtime reports for a container created and never started.
CreatedState == Some([running |-> Some(FALSE), exit_code |-> Some(0), error |-> Some("")])

\* No operation is in flight.
Quiescent == cr.pc \in {"idle", "done"} /\ dl.pc \in {"idle", "done"}

\* create submitting its create calls whatever the store answered.
CreateBeginUnchecked(item) ==
  /\ cr.pc \in {"idle", "done"}
  /\ ops < MaxOps
  /\ ops' = ops + 1
  /\ cr' = [CrIdle EXCEPT !.pc = "creating", !.item = item,
               !.fut = [k \in 1..Len(item.containers) |-> "todo"],
               !.made = [k \in 1..Len(item.containers) |-> 0]]
  /\ store' = StoreCreate(store, item).store
  /\ UNCHANGED <<containers, nextId, st, sm, cn, ls, ib, fs, cx, mt>>

\* create is called: the Job record is persisted, then one future per
\* container specification is collected into a FuturesUnordered.
CreateBegin(item) ==
  /\ cr.pc \in {"idle", "done"}
  /\ ops < MaxOps
  /\ ops' = ops + 1
  /\ IF ~StoreCreate(store, item).ok
     THEN /\ cr' = [CrIdle EXCEPT !.pc = "done", !.item = item, !.res = "err_conflict",
                      !.prev = IF cr.item.name = item.name THEN cr.res ELSE "none"]
          /\ store' = store
     ELSE /\ cr' = [CrIdle EXCEPT !.pc = "creating", !.item = item,
                      !.fut = [k \in 1..Len(item.containers) |-> "todo"],
                      !.made = [k \in 1..Len(item.containers) |-> 0],
                      !.prev = IF cr.item.name = item.name THEN cr.res ELSE "none"]
          /\ store' = StoreCreate(store, item).store
  /\ UNCHANGED <<containers, nextId, st, sm, cn, ls, ib, fs, cx, mt>>

\* create called while no other operation is in flight; the log of calls
\* starts anew.
Create(item) ==
  /\ Quiescent
  /\ CreateBegin(item)
  /\ dl' = DlIdle
  /\ calls' = <<>>

\* One create_container call of the FuturesUnordered is issued and completes:
\* with Ok the runtime holds the new container.
CreateContainer(k, ok) ==
  /\ cr.pc = "creating"
  /\ k \in 1..Len(cr.fut)
  /\ cr.fut[k] = "todo"
  /\ calls' = Append(calls, Call("create", k))
  /\ IF ok
     THEN /\ containers' = containers \cup
               {Container(nextId, CreateLabels(cr.item.containers[k], cr.item.name), k, CreatedState)}
          /\ nextId' = nextId + 1
          /\ cr' = [cr EXCEPT !.fut[k] = "ok", !.made[k] = nextId]
     ELSE /\ cr' = [cr EXCEPT !.fut[k] = "err"]
          /\ UNCHANGED <<containers, nextId>>
  /\ UNCHANGED <<store, st, dl, sm, cn, ops, ls, ib, fs, cx, mt>>

\* create returning as soon as one call has failed, dropping the calls left.
CreateCollectedFailFast(fut) ==
  (\E k \in 1..Len(fut) : fut[k] = "err") \/ (\A k \in 1..Len(fut) : fut[k] = "ok")

\* The FuturesUnordered is collected into a Vec: every call has completed.
CreateCollected(fut) == \A k \in 1..Len(fut) : fut[k] \in {"ok", "err"}

\* create deleting the Job record it persisted when a create call failed.
CreateFinishRollback ==
  /\ cr.pc = "creating"
  /\ CreateCollected(cr.fut)
  /\ cr' = [cr EXCEPT !.pc = "done",
              !.res = IF \E k \in 1..Len(cr.fut) : cr.fut[k] = "err" THEN "err_create" ELSE "ok"]
  /\ store' = IF \E k \in 1..Len(cr.fut) : cr.fut[k] = "err"
              THEN StoreDelete(store, cr.item.name).store ELSE store
  /\ UNCHANGED <<containers, calls, nextId, st, dl, sm, cn, ops, ls, ib, fs, cx, mt>>

\* Vec<Result> becomes Result<Vec>: create returns the first error, else the
\* Job.
CreateFinish ==
  /\ cr.pc = "creating"
  /\ CreateCollected(cr.fut)
  /\ cr' = [cr EXCEPT !.pc = "done",
              !.res = IF \E k \in 1..Len(cr.fut) : cr.fut[k] = "err" THEN "err_create" ELSE "ok"]
  /\ UNCHANGED <<store, containers, calls, nextId, st, dl, sm, cn, ops, ls, ib, fs, cx, mt>>

\* ---------------------------------------------------------- delete_by_name

\* delete_by_name is called: find_by_name.
DeleteBegin(name) ==
  /\ dl.pc \in {"idle", "done"}
  /\ ops < MaxOps
  /\ ops' = ops + 1
  /\ IF ~StoreFind(store, name).ok
     THEN dl' = [DlIdle EXCEPT !.pc = "done", !.name = name, !.res = "err_not_found",
                          !.prev = IF dl.name = name THEN dl.res ELSE "none"]
     ELSE dl' = [DlIdle EXCEPT !.pc = "list", !.name = name,
                          !.prev = IF dl.name = name THEN dl.res ELSE "none"]
  /\ UNCHANGED <<store, containers, nextId, st, sm, cn, ls, ib, fs, cx, mt>>

\* delete_by_name called while no other operation is in flight; the log of
\* calls starts anew.
DeleteByName(name) ==
  /\ Quiescent
  /\ DeleteBegin(name)
  /\ cr' = CrIdle
  /\ calls' = <<>>

\* list_containers answers: one remove future per listed instance is
\* collected into a FuturesUnordered.
DeleteList(ok) ==
  /\ dl.pc = "list"
  /\ calls' = Append(calls, Call("list", 0))
  /\ IF ok
     THEN dl' = [dl EXCEPT !.pc = "removing", !.listed = ListInstances(containers, dl.name),
                   !.fut = [k \in 1..Len(ListInstances(containers, dl.name)) |-> "todo"]]
     ELSE dl' = [dl EXCEPT !.pc = "done", !.res = "err_list"]
  /\ UNCHANGED <<store, containers, nextId, st, cr, sm, cn, ops, ls, ib, fs, cx, mt>>

\* One forced remove_container call is issued and completes: with Ok the
\* container has left the runtime; a container already gone is an error.
DeleteRemove(k, ok) ==
  /\ dl.pc = "removing"
  /\ k \in 1..Len(dl.fut)
  /\ dl.fut[k] = "todo"
  /\ calls' = Append(calls, Call("remove", dl.listed[k].id))
  /\ IF ok /\ ContainerOf(containers, dl.listed[k].id) # None
     THEN /\ containers' = {c \in containers : c.id # dl.listed[k].id}
          /\ dl' = [dl EXCEPT !.fut[k] = "ok"]
     ELSE /\ containers' = containers
          /\ dl' = [dl EXCEPT !.fut[k] = "err"]
  /\ UNCHANGED <<store, nextId, st, cr, sm, cn, ops, ls, ib, fs, cx, mt>>

\* The end of delete_by_name returning without deleting the Job record.
DeleteOutcomeKeepRecord(fut, s, name) ==
  [res |-> IF \E k \in 1..Len(fut) : fut[k] = "err" THEN "err_remove" ELSE "ok",
   store |-> s]

\* The end of delete_by_name deleting the Job record whatever the removals
\* returned.
DeleteOutcomeAlways(fut, s, name) ==
  [res |-> IF \E k \in 1..Len(fut) : fut[k] = "err" THEN "err_remove" ELSE "ok",
   store |-> StoreDelete(s, name).store]

\* The end of delete_by_name: the first removal error is returned and the
\* record kept, else the Job record is deleted from the store.
DeleteOutcome(fut, s, name) ==
  IF \E k \in 1..Len(fut) : fut[k] = "err"
  THEN [res |-> "err_remove", store |-> s]
  ELSE IF StoreDelete(s, name).ok
       THEN [res |-> "ok", store |-> StoreDelete(s, name).store]
       ELSE [res |-> "err_store", store |-> s]

\* Every remove call has completed: delete_by_name returns.
DeleteFinish ==
  /\ dl.pc = "removing"
  /\ \A k \in 1..Len(dl.fut) : dl.fut[k] \in {"ok", "err"}
  /\ dl' = [dl EXCEPT !.pc = "done", !.res = DeleteOutcome(dl.fut, store, dl.name).res]
  /\ store' = DeleteOutcome(dl.fut, store, dl.name).store
  /\ UNCHANGED <<containers, calls, nextId, st, cr, sm, cn, ops, ls, ib, fs, cx, mt>>

InitLife ==
  /\ store = EmptyStore
  /\ containers = {Foreign}
  /\ calls = <<>>
  /\ nextId = 1
  /\ st = StIdle
  /\ cr = CrIdle
  /\ dl = DlIdle
  /\ sm = SmIdle
  /\ cn = CnIdle
  /\ ls = LsIdle
  /\ ib = IbIdle
  /\ fs = FsNone
  /\ cx = CxIdle
  /\ mt = MtIdle
  /\ ops = 0

NextLife ==
  \/ \E item \in Items : Create(item)
  \/ \E k \in 1..MaxInst + 1, ok \in BOOLEAN : CreateContainer(k, ok)
  \/ CreateFinish
  \/ \E name \in Names : DeleteByName(name)
  \/ \E ok \in BOOLEAN : DeleteList(ok)
  \/ \E k \in 1..MaxOps * (MaxInst + 1), ok \in BOOLEAN : DeleteRemove(k, ok)
  \/ DeleteFinish

\* create and delete_by_name invoked one after another on the job "job1".
SpecLife == InitLife /\ [][NextLife]_vars

\* C3: delete_by_name removes the Job record from the store only once every
\* instance removal call has succeeded: a Job record leaves the store only in
\* the returning step of a delete_by_name on its name all of whose removals
\* returned Ok; when delete_by_name returns after its removals, the record is
\* absent and the result Ok if all of them succeeded, and if any failed the
\* result is an error, the store is as it was and find_by_name still succeeds.
C3_RecordAfterRemovals ==
  [][/\ \A n \in Names :
          (store[n] # None /\ store'[n] = None) =>
            /\ dl.pc = "removing" /\ dl'.pc = "done" /\ dl.name = n
            /\ \A k \in 1..Len(dl.fut) : dl.fut[k] = "ok"
     /\ (dl.pc = "removing" /\ dl'.pc = "done") =>
          IF \A k \in 1..Len(dl.fut) : dl.fut[k] = "ok"
          THEN dl'.res = "ok" /\ ~StoreFind(store', dl.name).ok
          ELSE /\ dl'.res = "err_remove"
               /\ store' = store
               /\ StoreFind(store', dl.name).ok]_vars

\* delete_by_name returned an error after one removal succeeded and another
\* failed: the Job record is still in the store.
C3_Witness ==
  /\ dl.pc = "done" /\ dl.res = "err_remove"
  /\ \E j, k \in 1..Len(dl.fut) : dl.fut[j] = "ok" /\ dl.fut[k] = "err"
  /\ StoreFind(store, dl.name).ok

\* C4: when a container-create call of create fails, create returns an error
\* once every call has completed (no sibling call is dropped), and every
\* container whose create call succeeded is in the runtime when create
\* returns (nothing is rolled back).
C4_NoRollback ==
  (cr.pc = "done" /\ cr.res # "err_conflict") =>
    /\ \A k \in 1..Len(cr.fut) : cr.fut[k] \in {"ok", "err"}
    /\ cr.res = "err_create" <=> \E k \in 1..Len(cr.fut) : cr.fut[k] = "err"
    /\ \A k \in 1..Len(cr.fut) :
         cr.fut[k] = "ok" =>
           \E c \in containers : c.id = cr.made[k] /\ c.spec = k
                                  /\ <<JobLabel, cr.item.name>> \in c.labels
    /\ StoreFind(store, cr.item.name).ok

\* create returned an error: one call failed, the container of another is in
\* the runtime.
C4_Witness ==
  /\ cr.pc = "done" /\ cr.res = "err_create"
  /\ \E j, k \in 1..Len(cr.fut) :
       /\ cr.fut[j] = "err"
       /\ cr.fut[k] = "ok"
       /\ \E c \in containers : c.id = cr.made[k]

\* ------------------------------------------------- logs_by_name and wait

\* The concatenation of a sequence of sequences (Vec<String>::join("")).
RECURSIVE Join(_)
Join(ss) == IF ss = <<>> THEN <<>> ELSE Head(ss) \o Join(Tail(ss))

\* str::replace('/', ""): the characters other than '/'.
StripSlash(chars) == SelectSeq(chars, LAMBDA ch : ch # "/")

\* container.names.clone().unwrap_or_default().join("").replace('/', "")
ContainerName(summary) == StripSlash(Join(UnwrapOr(summary.names, <<>>)))

\* What the runtime's log stream of an instance may yield as its n-th
\* element: a chunk of output, or a transport error.
RawLogs(n) ==
  {[tag |-> "ok", seq |-> n, message |-> n],
   [tag |-> "err", seq |-> n, error |-> "transport"]}

\* What the runtime's wait stream of an instance may yield as its n-th
\* element: a wait response, a container-wait error (DockerContainerWaitError
\* with its message and status code), or another error.
RawWaits(n) ==
  {[tag |-> "ok", seq |-> n, status_code |-> 0, error |-> None],
   [tag |-> "err", seq |-> n, error |-> "wait", message |-> "gone", code |-> 137],
   [tag |-> "err", seq |-> n, error |-> "transport"]}

\* The closure mapped over an instance's log stream.
LogMap(instance, elem) ==
  IF elem.tag = "err"
  THEN [ok |-> FALSE, err |-> elem.error]
  ELSE [ok |-> TRUE,
        val |-> [container_name |-> ContainerName(instance),
                 log |-> [kind |-> "stdout", data |-> elem.message]]]

\* JobWaitResponse::from_container_wait_response
FromContainerWaitResponse(response, container_name) ==
  [container_name |-> container_name, status_code |-> response.status_code,
   error |-> response.error]

\* The wait closure passing every error on as an error.
WaitMapNoIsolation(container_name, wait_result) ==
  IF wait_result.tag = "err"
  THEN [ok |-> FALSE, err |-> wait_result.error]
  ELSE [ok |-> TRUE, val |-> FromContainerWaitResponse(wait_result, container_name)]

\* The wait closure turning every error into a wait record.
WaitMapAllRecords(container_name, wait_result) ==
  IF wait_result.tag = "err"
  THEN [ok |-> TRUE,
        val |-> [container_name |-> container_name, status_code |-> 0,
                 error |-> Some([message |-> Some(wait_result.error)])]]
  ELSE [ok |-> TRUE, val |-> FromContainerWaitResponse(wait_result, container_name)]

\* The closure mapped over an instance's wait stream.
WaitMap(container_name, wait_result) ==
  IF wait_result.tag = "err"
  THEN IF wait_result.error = "wait"
       THEN [ok |-> TRUE,
             val |-> [container_name |-> container_name,
                      status_code |-> wait_result.code,
                      error |-> Some([message |-> Some(wait_result.message)])]]
       ELSE [ok |-> FALSE, err |-> wait_result.error]
  ELSE [ok |-> TRUE, val |-> FromContainerWaitResponse(wait_result, container_name)]

\* The mapped stream of one instance: its closure applied to an element.
MapElem(kind, instance, elem) ==
  IF kind = "logs" THEN LogMap(instance, elem)
  ELSE WaitMap(ContainerName(instance), elem)

\* transform_stream: an Ok item becomes the bytes of its record, an error
\* the stream's HttpError (code and message).
TransformStream(item) ==
  IF item.ok THEN [ok |-> TRUE, bytes |-> [serialized |-> item.val]]
  ELSE [ok |-> FALSE, err |-> [code |-> "error", msg |-> item.err]]

\* Whether a delivered item ends stream production: never.
EndsProductionNever(item) == FALSE

\* Whether a delivered item ends stream production: an error does.
EndsProduction(item) == ~item.ok

\* A stream handing out its newest pending element first.
PollNextNewest(queue) == Len(queue)

\* Stream::poll_next on an instance's stream: the index of the pending
\* element it yields, the oldest.
PollNext(queue) == 1

\* The sequence without its i-th element.
Without(seq, i) == SubSeq(seq, 1, i - 1) \o SubSeq(seq, i + 1, Len(seq))

\* logs_by_name or wait is called: find_by_name.
StreamCall(kind, name) ==
  /\ sm.pc = "idle"
  /\ IF ~StoreFind(store, name).ok
     THEN sm' = [sm EXCEPT !.pc = "done", !.kind = kind, !.name = name, !.res = "err_not_found"]
     ELSE sm' = [sm EXCEPT !.pc = "list", !.kind = kind, !.name = name]
  /\ UNCHANGED <<store, containers, calls, nextId, st, cr, dl, cn, ops, ls, ib, fs, cx, mt>>

\* list_containers answers: on Ok one mapped stream per instance is opened
\* and the streams are merged by select_all.
StreamList(ok) ==
  /\ sm.pc = "list"
  /\ calls' = Append(calls, Call("list", 0))
  /\ IF ok
     THEN LET listed == ListInstances(containers, sm.name)
          IN sm' = [sm EXCEPT !.pc = "open", !.listed = listed,
                      !.queue = [k \in 1..Len(listed) |-> <<>>],
                      !.sent = [k \in 1..Len(listed) |-> 0],
                      !.fin = [k \in 1..Len(listed) |-> FALSE]]
     ELSE sm' = [sm EXCEPT !.pc = "done", !.res = "err_list"]
  /\ UNCHANGED <<store, containers, nextId, st, cr, dl, cn, ops, ls, ib, fs, cx, mt>>

\* The elements the runtime has sent on all the instances' streams.
TotalSent == LET RECURSIVE Sum(_)
                 Sum(n) == IF n = 0 THEN 0 ELSE sm.sent[n] + Sum(n - 1)
             IN Sum(Len(sm.sent))

\* The elements sent and not yet delivered.
TotalPending == LET RECURSIVE Sum(_)
                    Sum(n) == IF n = 0 THEN 0 ELSE Len(sm.queue[n]) + Sum(n - 1)
                IN Sum(Len(sm.queue))

\* The runtime sends the next element of an instance's log or wait stream.
RuntimeEmit(k, elem) ==
  /\ sm.pc = "open"
  /\ k \in 1..Len(sm.listed)
  /\ ~sm.fin[k]
  /\ TotalSent < MaxMerged
  /\ elem \in (IF sm.kind = "logs" THEN RawLogs(sm.sent[k] + 1) ELSE RawWaits(sm.sent[k] + 1))
  /\ sm' = [sm EXCEPT !.queue[k] = Append(@, elem), !.sent[k] = @ + 1]
  /\ UNCHANGED <<store, containers, calls, nextId, st, cr, dl, cn, ops, ls, ib, fs, cx, mt>>

\* The runtime ends an instance's stream.
RuntimeFinish(k) ==
  /\ sm.pc = "open"
  /\ k \in 1..Len(sm.listed)
  /\ ~sm.fin[k]
  /\ sm' = [sm EXCEPT !.fin[k] = TRUE]
  /\ UNCHANGED <<store, containers, calls, nextId, st, cr, dl, cn, ops, ls, ib, fs, cx, mt>>

\* The consumer polls the merged stream and select_all yields the next
\* element of one instance's mapped stream.
MergeNext(k) ==
  /\ sm.pc = "open"
  /\ k \in 1..Len(sm.listed)
  /\ sm.queue[k] # <<>>
  /\ LET i == PollNext(sm.queue[k])
         elem == sm.queue[k][i]
         item == MapElem(sm.kind, sm.listed[k], elem)
         out == TransformStream(item)
     IN sm' = [sm EXCEPT !.queue[k] = Without(@, i),
                 !.merged = Append(@, [src |-> sm.listed[k].id, raw |-> elem,
                                       item |-> item, out |-> out]),
                 !.pc = IF EndsProduction(out) THEN "ended" ELSE "open",
                 !.res = IF EndsProduction(out) THEN "error" ELSE @]
  /\ UNCHANGED <<store, containers, calls, nextId, st, cr, dl, cn, ops, ls, ib, fs, cx, mt>>

\* A merge that ends as soon as one instance's stream has ended.
MergeEndAny ==
  /\ sm.pc = "open"
  /\ \/ sm.listed = <<>>
     \/ \E k \in 1..Len(sm.listed) : sm.fin[k] /\ sm.queue[k] = <<>>
  /\ sm' = [sm EXCEPT !.pc = "ended", !.res = "eos"]
  /\ UNCHANGED <<store, containers, calls, nextId, st, cr, dl, cn, ops, ls, ib, fs, cx, mt>>

\* Every instance's stream has ended: select_all ends the merged stream.
MergeEnd ==
  /\ sm.pc = "open"
  /\ \A k \in 1..Len(sm.listed) : sm.fin[k] /\ sm.queue[k] = <<>>
  /\ sm' = [sm EXCEPT !.pc = "ended", !.res = "eos"]
  /\ UNCHANGED <<store, containers, calls, nextId, st, cr, dl, cn, ops, ls, ib, fs, cx, mt>>

InitStream ==
  /\ \E n \in 0..MaxInst :
       InitRuntime(n, [i \in 1..n |-> Some([running |-> Some(TRUE), exit_code |-> None, error |-> None])])
  /\ st = StIdle
  /\ cr = CrIdle
  /\ dl = DlIdle
  /\ sm = SmIdle
  /\ cn = CnIdle
  /\ ls = LsIdle
  /\ ib = IbIdle
  /\ fs = FsNone
  /\ cx = CxIdle
  /\ mt = MtIdle
  /\ ops = 0

NextStream ==
  \/ \E kind \in {"logs", "wait"}, name \in Names : StreamCall(kind, name)
  \/ \E ok \in BOOLEAN : StreamList(ok)
  \/ \E k \in 1..MaxInst + 1, n \in 1..MaxMerged + 1 :
       \E elem \in RawLogs(n) \cup RawWaits(n) : RuntimeEmit(k, elem)
  \/ \E k \in 1..MaxInst + 1 : RuntimeFinish(k)
  \/ \E k \in 1..MaxInst + 1 : MergeNext(k)
  \/ MergeEnd

\* logs_by_name and wait on a runtime holding the job's instances.
SpecStream == InitStream /\ [][NextStream]_vars

\* Whether a raw element of a wait stream is a container-wait error.
IsWaitError(elem) == elem.tag = "err" /\ elem.error = "wait"
\* Whether a raw element of a stream is an error other than that.
IsOtherError(elem) == elem.tag = "err" /\ elem.error # "wait"

\* C5: in the merged wait stream, a container-wait error of an instance is
\* delivered as a non-error record carrying that instance's name, the
\* runtime's status code and the error message; it is no error element, and it
\* does not end the stream: while no other error was delivered, the stream
\* stays open to the elements of every instance.
C5_WaitErrorIsRecord ==
  sm.kind = "wait" =>
    /\ \A i \in 1..Len(sm.merged) :
         IsWaitError(sm.merged[i].raw) =>
           /\ sm.merged[i].item = [ok |-> TRUE,
                val |-> [container_name |-> <<"c", ToString(sm.merged[i].src)>>,
                         status_code |-> sm.merged[i].raw.code,
                         error |-> Some([message |-> Some(sm.merged[i].raw.message)])]]
           /\ sm.merged[i].out.ok
    /\ (sm.pc = "ended" /\ \A i \in 1..Len(sm.merged) : ~IsOtherError(sm.merged[i].raw)) =>
         /\ sm.res = "eos"
         /\ \A k \in 1..Len(sm.listed) : sm.queue[k] = <<>>

\* The merged wait stream delivered the container-wait error of one instance
\* as a record and, after it, the wait response of another instance.
C5_Witness ==
  /\ sm.kind = "wait"
  /\ \E i, j \in 1..Len(sm.merged) :
       /\ i < j
       /\ IsWaitError(sm.merged[i].raw) /\ sm.merged[i].out.ok
       /\ sm.merged[j].src # sm.merged[i].src
       /\ sm.merged[j].raw.tag = "ok" /\ sm.merged[j].out.ok
       /\ sm.merged[j].item.val.status_code = 0

\* C6: in the merged wait stream, an error of an instance's stream that is no
\* container-wait error is yielded as an error element carrying that error,
\* never as a wait record.
C6_OtherErrorsPropagate ==
  sm.kind = "wait" =>
    \A i \in 1..Len(sm.merged) :
      IsOtherError(sm.merged[i].raw) =>
        /\ sm.merged[i].item = [ok |-> FALSE, err |-> sm.merged[i].raw.error]
        /\ ~sm.merged[i].out.ok
        /\ sm.merged[i].out.err.msg = sm.merged[i].raw.error

\* The merged wait stream yielded a record of one instance and then the
\* transport error of another as an error element.
C6_Witness ==
  /\ sm.kind = "wait"
  /\ \E i, j \in 1..Len(sm.merged) :
       /\ i < j
       /\ sm.merged[i].out.ok
       /\ sm.merged[j].src # sm.merged[i].src
       /\ IsOtherError(sm.merged[j].raw) /\ ~sm.merged[j].out.ok

\* C7: in the merged log stream, a transport error of an instance's stream is
\* delivered as an error element, and it is the last element delivered: the
\* stream has ended and no element of any instance follows it.
C7_LogErrorEndsStream ==
  sm.kind = "logs" =>
    \A i \in 1..Len(sm.merged) :
      /\ sm.merged[i].raw.tag = "err" <=> ~sm.merged[i].out.ok
      /\ ~sm.merged[i].out.ok => i = Len(sm.merged) /\ sm.pc = "ended" /\ sm.res = "error"

\* The merged log stream ended on the transport error of one instance while
\* an element of another instance was pending.
C7_Witness ==
  /\ sm.kind = "logs" /\ sm.pc = "ended"
  /\ Len(sm.merged) >= 2
  /\ ~sm.merged[Len(sm.merged)].out.ok
  /\ \E k \in 1..Len(sm.listed) :
       sm.listed[k].id # sm.merged[Len(sm.merged)].src /\ sm.queue[k] # <<>>

\* C8: in the merged log and wait streams, the elements of each instance
\* appear in the order its own stream produced them: the elements delivered
\* from an instance are, in order, the first ones the runtime sent on it.
C8_InstanceOrder ==
  \A k \in 1..Len(sm.listed) :
    LET mine == SelectSeq(sm.merged, LAMBDA e : e.src = sm.listed[k].id)
    IN /\ \A i \in 1..Len(mine) : mine[i].raw.seq = i
       /\ \A i \in 1..Len(sm.queue[k]) : sm.queue[k][i].seq = Len(mine) + i

\* The merged stream delivered two elements of one instance around an element
\* of another instance.
C8_Witness ==
  \E a, b, c \in 1..Len(sm.merged) :
    /\ a < b /\ b < c
    /\ sm.merged[a].src = sm.merged[c].src
    /\ sm.merged[b].src # sm.merged[a].src
    /\ sm.merged[a].raw.seq = 1 /\ sm.merged[c].raw.seq = 2

\* C11: an iteration of count_instances over an instance that is not running
\* adds to succeeded 1 if its exit code is present and 0 (else 0), adds to
\* failed 1 if its exit code is present and not 0 plus 1 if its error string
\* is present and not empty, and leaves running as it was.
C11_StoppedIncrements ==
  [][(/\ cn.pc = "loop"
      /\ cn'.i = cn.i + 1
      /\ ~IsRunning(cn.instances[cn'.i]))
     => LET state == UnwrapOr(cn.instances[cn'.i], DefaultState)
            zero == IF state.exit_code \in {Some(0)} THEN 1 ELSE 0
            nonzero == IF state.exit_code \in {Some(c) : c \in ExitCodes \ {0}} THEN 1 ELSE 0
            errored == IF state.error \in {Some(e) : e \in ErrorStrings \ {""}} THEN 1 ELSE 0
        IN /\ cn'.acc.instance_success = cn.acc.instance_success + zero
           /\ cn'.acc.instance_failed = cn.acc.instance_failed + nonzero + errored
           /\ cn'.acc.instance_running = cn.acc.instance_running]_vars

\* count_instances returned over one stopped instance with exit code 1 and
\* error "oom": two failures.
C11_Witness ==
  /\ cn.pc = "done"
  /\ cn.instances = <<Some([running |-> Some(FALSE), exit_code |-> Some(1), error |-> Some("oom")])>>
  /\ cn.ret = <<1, 2, 0, 0>>

\* -------------------------------------------------------- inspect_by_name

\* inspect_by_name going to inspect_instances without resolving the job.
InspectByNameNoFind(name) ==
  /\ ib.pc = "idle"
  /\ ib' = [ib EXCEPT !.pc = "list", !.name = name]
  /\ UNCHANGED <<store, containers, calls, nextId, st, cr, dl, sm, cn, ls, ops, fs, cx, mt>>

\* inspect_by_name is called: find_by_name, then (in inspect_instances) the
\* list_instances call.
InspectByName(name) ==
  /\ ib.pc = "idle"
  /\ IF ~StoreFind(store, name).ok
     THEN ib' = [ib EXCEPT !.pc = "done", !.name = name, !.res = "err_not_found"]
     ELSE ib' = [ib EXCEPT !.pc = "list", !.name = name]
  /\ UNCHANGED <<store, containers, calls, nextId, st, cr, dl, sm, cn, ls, ops, fs, cx, mt>>

\* list_containers answers: the instances, or a runtime error.
InspectList(ok) ==
  /\ ib.pc = "list"
  /\ calls' = Append(calls, Call("list", 0))
  /\ IF ok
     THEN ib' = [ib EXCEPT !.pc = "inspect", !.listed = ListInstances(containers, ib.name)]
     ELSE ib' = [ib EXCEPT !.pc = "done", !.res = "err_list"]
  /\ UNCHANGED <<store, containers, nextId, st, cr, dl, sm, cn, ls, ops, fs, cx, mt>>

\* One inspect_container call of the FuturesUnordered completes.
InspectInstance(k, ok) ==
  /\ ib.pc = "inspect"
  /\ k \in InspectPending(ib.listed, ib.vec)
  /\ calls' = Append(calls, Call("inspect", ib.listed[k].id))
  /\ ib' = [ib EXCEPT !.vec = Append(@, InspectResult(containers, ib.listed[k], ok))]
  /\ UNCHANGED <<store, containers, nextId, st, cr, dl, sm, cn, ls, ops, fs, cx, mt>>

\* The inspect states of a sequence of inspected instances.
StatesOf(vec) == [k \in 1..Len(vec) |-> vec[k].state]

\* Every inspect call has completed: on Ok the instances are counted and the
\* JobInspect is returned.
InspectFinish ==
  /\ ib.pc = "inspect"
  /\ InspectPending(ib.listed, ib.vec) = {}
  /\ IF AnyErr(ib.vec)
     THEN ib' = [ib EXCEPT !.pc = "done", !.res = "err_inspect"]
     ELSE ib' = [ib EXCEPT !.pc = "done", !.res = "ok",
                   !.ret = <<[name |-> ib.name,
                              counts |-> CountInstances(StatesOf(ib.vec)),
                              instances |-> [k \in 1..Len(ib.vec) |-> ib.vec[k].id]]>>]
  /\ UNCHANGED <<store, containers, calls, nextId, st, cr, dl, sm, cn, ls, ops, fs, cx, mt>>

\* ------------------------------------------------------------------- list

\* The order in which the store lists its jobs.
NameOrder == <<"job1", "job2">>

\* repositories::job::list: the records of the store.
StoreList(s) ==
  LET present == SelectSeq(NameOrder, LAMBDA n : s[n] # None)
  IN [k \in 1..Len(present) |-> s[present[k]][1]]

\* The future of one job of list before its first poll.
JobFuture == [pc |-> "list", listed |-> <<>>, vec |-> <<>>]

\* list is called: the store lists the jobs, and one future per job is
\* collected into a FuturesUnordered.
List(ok) ==
  /\ ls.pc = "idle"
  /\ IF ok
     THEN ls' = [ls EXCEPT !.pc = "run", !.jobs = StoreList(store),
                   !.fut = [k \in 1..Len(StoreList(store)) |-> JobFuture]]
     ELSE ls' = [ls EXCEPT !.pc = "done", !.res = "err_store"]
  /\ UNCHANGED <<store, containers, calls, nextId, st, cr, dl, sm, cn, ib, ops, fs, cx, mt>>

\* The future of job j: list_containers answers (inspect_instances).
ListJobList(j, ok) ==
  /\ ls.pc = "run"
  /\ j \in 1..Len(ls.fut)
  /\ ls.fut[j].pc = "list"
  /\ calls' = Append(calls, Call("list", 0))
  /\ IF ok
     THEN ls' = [ls EXCEPT !.fut[j].pc = "inspect",
                   !.fut[j].listed = ListInstances(containers, ls.jobs[j].name)]
     ELSE ls' = [ls EXCEPT !.fut[j].pc = "done",
                   !.vec = Append(@, [ok |-> FALSE, name |-> ls.jobs[j].name, counts |-> <<>>])]
  /\ UNCHANGED <<store, containers, nextId, st, cr, dl, sm, cn, ib, ops, fs, cx, mt>>

\* The future of job j: one inspect_container call completes.
ListJobInspect(j, k, ok) ==
  /\ ls.pc = "run"
  /\ j \in 1..Len(ls.fut)
  /\ ls.fut[j].pc = "inspect"
  /\ k \in InspectPending(ls.fut[j].listed, ls.fut[j].vec)
  /\ calls' = Append(calls, Call("inspect", ls.fut[j].listed[k].id))
  /\ ls' = [ls EXCEPT !.fut[j].vec =
                        Append(@, InspectResult(containers, ls.fut[j].listed[k], ok))]
  /\ UNCHANGED <<store, containers, nextId, st, cr, dl, sm, cn, ib, ops, fs, cx, mt>>

\* The output of the future of a job whose inspect calls have completed: the
\* error of inspect_instances, or the JobSummary with its counters.
JobSummary(job, vec) ==
  IF AnyErr(vec) THEN [ok |-> FALSE, name |-> job.name, counts |-> <<>>]
  ELSE [ok |-> TRUE, name |-> job.name, counts |-> CountInstances(StatesOf(vec))]

\* The future of job j completes; the outputs are collected in completion
\* order.
ListJobDone(j) ==
  /\ ls.pc = "run"
  /\ j \in 1..Len(ls.fut)
  /\ ls.fut[j].pc = "inspect"
  /\ InspectPending(ls.fut[j].listed, ls.fut[j].vec) = {}
  /\ ls' = [ls EXCEPT !.fut[j].pc = "done",
              !.vec = Append(@, JobSummary(ls.jobs[j], ls.fut[j].vec))]
  /\ UNCHANGED <<store, containers, calls, nextId, st, cr, dl, sm, cn, ib, ops, fs, cx, mt>>

\* The end of list returning the summaries that were built and dropping the
\* jobs whose inspection failed.
ListCollectPartial(vec) ==
  [res |-> "ok", ret |-> SelectSeq(vec, LAMBDA r : r.ok)]

\* Vec<Result<JobSummary>> becomes Result<Vec<JobSummary>>: the first error,
\* else every summary.
ListCollect(vec) ==
  IF AnyErr(vec) THEN [res |-> "err_inspect", ret |-> <<>>]
  ELSE [res |-> "ok", ret |-> vec]

\* Every job future has completed: list returns.
ListFinish ==
  /\ ls.pc = "run"
  /\ \A j \in 1..Len(ls.fut) : ls.fut[j].pc = "done"
  /\ ls' = [ls EXCEPT !.pc = "done", !.res = ListCollect(ls.vec).res,
              !.ret = ListCollect(ls.vec).ret]
  /\ UNCHANGED <<store, containers, calls, nextId, st, cr, dl, sm, cn, ib, ops, fs, cx, mt>>

\* A store holding any of the jobs, "job1" with up to MaxInst instances and
\* "job2" with one.
InitList ==
  /\ \E present \in SUBSET Names :
       store = [n \in Names |-> IF n \in present THEN Some(JobRecord(n, <<PlainSpec>>)) ELSE None]
  /\ \E n \in 0..MaxInst : \E states \in [1..n -> StartStates] :
       containers = {Container(i, {<<JobLabel, "job1">>}, i, states[i]) : i \in 1..n} \cup {Foreign}
  /\ nextId = MaxInst + 1
  /\ calls = <<>>
  /\ st = StIdle
  /\ cr = CrIdle
  /\ dl = DlIdle
  /\ sm = SmIdle
  /\ cn = CnIdle
  /\ ls = LsIdle
  /\ ib = IbIdle
  /\ fs = FsNone
  /\ cx = CxIdle
  /\ mt = MtIdle
  /\ ops = 0

NextList ==
  \/ \E ok \in BOOLEAN : List(ok)
  \/ \E j \in 1..Cardinality(Names), ok \in BOOLEAN : ListJobList(j, ok)
  \/ \E j \in 1..Cardinality(Names), k \in 1..MaxInst + 1, ok \in BOOLEAN : ListJobInspect(j, k, ok)
  \/ \E j \in 1..Cardinality(Names) : ListJobDone(j)
  \/ ListFinish

\* list over the jobs of the store.
SpecList == InitList /\ [][NextList]_vars

\* C12: list returns either one Job Summary for every job of the store, or a
\* single error and no summary; it returns the error whenever the instance
\* inspection of one of the jobs failed.
C12_ListAllOrError ==
  (ls.pc = "done" /\ ls.res # "err_store") =>
    LET failed == \E r \in 1..Len(ls.vec) : ~ls.vec[r].ok
    IN /\ failed => (ls.res = "err_inspect" /\ ls.ret = <<>>)
       /\ ~failed =>
            /\ ls.res = "ok"
            /\ Len(ls.ret) = Cardinality({n \in Names : store[n] # None})
            /\ \A n \in Names : store[n] # None =>
                 \E k \in 1..Len(ls.ret) :
                   /\ ls.ret[k].ok
                   /\ ls.ret[k].name = n
                   /\ ls.ret[k].counts[1] =
                        Cardinality({c \in containers : <<JobLabel, n>> \in c.labels})

\* list returned over two jobs, the summary of one built and the inspection
\* of the other failed.
C12_Witness ==
  /\ ls.pc = "done"
  /\ Len(ls.vec) = 2
  /\ \E a, b \in 1..2 : ls.vec[a].ok /\ ~ls.vec[b].ok

\* --------------------------------------------- the operations by job name

\* No operation by name has been called yet.
NoCall == st = StIdle /\ dl = DlIdle /\ ib = IbIdle /\ sm = SmIdle

NextByName ==
  \/ NoCall /\ \E name \in Names : StartByName(name)
  \/ NoCall /\ \E name \in Names : DeleteBegin(name) /\ UNCHANGED <<cr, calls, ls, ib>>
  \/ NoCall /\ \E name \in Names : InspectByName(name)
  \/ NoCall /\ \E kind \in {"logs", "wait"}, name \in Names : StreamCall(kind, name)
  \/ \E ok \in BOOLEAN : StartList(ok)
  \/ \E k \in 1..MaxInst + 1, ok \in BOOLEAN : StartInspect(k, ok)
  \/ StartInspected
  \/ \E k \in 1..MaxInst + 1 : StartPoll(k)
  \/ \E k \in 1..MaxInst + 1, ok \in BOOLEAN : StartComplete(k, ok)
  \/ StartFinish
  \/ \E ok \in BOOLEAN : DeleteList(ok)
  \/ \E k \in 1..MaxInst + 1, ok \in BOOLEAN : DeleteRemove(k, ok)
  \/ DeleteFinish
  \/ \E ok \in BOOLEAN : InspectList(ok)
  \/ \E k \in 1..MaxInst + 1, ok \in BOOLEAN : InspectInstance(k, ok)
  \/ InspectFinish
  \/ \E ok \in BOOLEAN : StreamList(ok)
  \/ \E k \in 1..MaxInst + 1, n \in 1..MaxMerged + 1 :
       \E elem \in RawLogs(n) \cup RawWaits(n) : RuntimeEmit(k, elem)
  \/ \E k \in 1..MaxInst + 1 : RuntimeFinish(k)
  \/ \E k \in 1..MaxInst + 1 : MergeNext(k)
  \/ MergeEnd

\* A runtime holding up to MaxInst stopped instances of "job1"; the store
\* holds "job1" and not "job2".
InitByName ==
  /\ \E n \in 0..MaxInst : InitRuntime(n, [i \in 1..n |-> Some(DefaultState)])
  /\ st = StIdle
  /\ cr = CrIdle
  /\ dl = DlIdle
  /\ sm = SmIdle
  /\ cn = CnIdle
  /\ ls = LsIdle
  /\ ib = IbIdle
  /\ fs = FsNone
  /\ cx = CxIdle
  /\ mt = MtIdle
  /\ ops = 0

\* One of start_by_name, delete_by_name, inspect_by_name, logs_by_name and
\* wait called with a known or an unknown name.
SpecByName == InitByName /\ [][NextByName]_vars

\* The step from frame f to frame g is a call with a name unknown to the
\* store that returns not-found at once, or is no step of a call that
\* returned not-found.
NotFoundStep(f, g) ==
  /\ (f.pc = "idle" /\ g.pc # "idle" /\ store[g.name] = None)
       => g.pc = "done" /\ g.res = "err_not_found"
  /\ ((f.pc = "idle" /\ g.pc # "idle" /\ store[g.name] = None) \/
      (f.pc = "done" /\ f.res = "err_not_found"))
       => calls' = calls /\ store' = store /\ containers' = containers

\* C13: start_by_name, delete_by_name, inspect_by_name, logs_by_name and wait
\* called with a job name unknown to the store return a not-found error,
\* issue no runtime call and leave the store as it was.
C13_UnknownName ==
  [][/\ NotFoundStep(st, st')
     /\ NotFoundStep(dl, dl')
     /\ NotFoundStep(ib, ib')
     /\ NotFoundStep(sm, sm')]_vars

\* inspect_by_name was called with the unknown name "job2" and returned
\* not-found with no runtime call issued.
C13_Witness ==
  /\ ib.pc = "done" /\ ib.name = "job2" /\ ib.res = "err_not_found"
  /\ store["job2"] = None
  /\ calls = <<>>

\* C14: start_by_name has updated the Job's updated_at exactly when the
\* instances were listed and inspected without error and every start call it
\* issued succeeded, and then it returns Ok; when the listing, an inspect call
\* or a start call failed it returns an error and the Job record, updated_at
\* included, is as it was.
C14_TouchIffSuccess ==
  LET job == store["job1"][1]
      succeeded == /\ st.pc = "done"
                   /\ st.res \notin {"err_not_found", "err_list"}
                   /\ ~AnyErr(st.vec)
                   /\ \A k \in 1..Len(st.fut) : st.fut[k] \in {"skip", "ok"}
  IN /\ store["job1"] # None
     /\ job.updated_at # 0 <=> succeeded
     /\ succeeded => st.res = "ok" /\ job.updated_at = 1
     /\ job.name = "job1"
     /\ job.containers = [i \in 1..(Cardinality(containers) - 1) |-> PlainSpec]
     /\ (st.pc = "done" /\ ~succeeded) =>
          st.res \in {"err_not_found", "err_list", "err_inspect", "err_start"}

\* start_by_name returned an error after one of its start calls succeeded and
\* another failed; updated_at is as it was.
C14_Witness ==
  /\ st.pc = "done" /\ st.res = "err_start"
  /\ \E j, k \in 1..Len(st.fut) : st.fut[j] = "ok" /\ st.fut[k] = "err"
  /\ store["job1"][1].updated_at = 0

\* The create calls issued so far by the create in flight or returned: none
\* when the record was not persisted, at most one per container
\* specification while create is running, exactly one per container
\* specification once it has returned.
CreateCallsIssued ==
  /\ \A k \in 1..Len(calls) :
       calls[k].op = "create" =>
         /\ cr.pc \in {"creating", "done"}
         /\ cr.res # "err_conflict"
         /\ store[cr.item.name] # None
         /\ calls[k].id \in 1..Len(cr.item.containers)
  /\ cr.pc = "creating" =>
       \A k \in 1..Len(cr.item.containers) :
         NumCalls("create", k) = IF cr.fut[k] = "todo" THEN 0 ELSE 1
  /\ (cr.pc = "done" /\ cr.res \in {"ok", "err_create"}) =>
       \A k \in 1..Len(cr.item.containers) : NumCalls("create", k) = 1

\* C15: create goes on to its container-create calls only when it has just
\* persisted the Job record, and returns at once with the store as it was
\* when persisting failed; a create call is issued only with the record in
\* the store, and a create that persisted the record has issued exactly one
\* create call per container specification when it returns.
C15_PersistThenCreate ==
  [][/\ (cr.pc \in {"idle", "done"} /\ cr'.pc = "creating")
          => store[cr'.item.name] = None /\ store'[cr'.item.name] # None
     /\ (cr.pc \in {"idle", "done"} /\ cr'.pc = "done")
          => store[cr'.item.name] # None /\ store' = store /\ cr'.res = "err_conflict"
     /\ CreateCallsIssued']_vars

\* create returned Ok for a job of two container specifications: the record
\* is in the store and two create calls were issued.
C15_Witness ==
  /\ cr.pc = "done" /\ cr.res = "ok"
  /\ Len(cr.item.containers) = 2
  /\ store[cr.item.name] # None
  /\ NumCalls("create", 1) = 1 /\ NumCalls("create", 2) = 1

\* ------------------------------------------- create and delete in parallel

NextRace ==
  \/ \E item \in Items : CreateBegin(item) /\ UNCHANGED <<dl, calls>>
  \/ \E k \in 1..MaxInst + 1, ok \in BOOLEAN : CreateContainer(k, ok)
  \/ CreateFinish
  \/ \E name \in Names : DeleteBegin(name) /\ UNCHANGED <<cr, calls>>
  \/ \E ok \in BOOLEAN : DeleteList(ok)
  \/ \E k \in 1..MaxOps * (MaxInst + 1), ok \in BOOLEAN : DeleteRemove(k, ok)
  \/ DeleteFinish

\* create and delete_by_name invoked by concurrent requests: the steps of the
\* one interleave with the steps of the other.
SpecRace == InitLife /\ [][NextRace]_vars

\* C16: when delete_by_name returns Ok for a job, the runtime holds no
\* instance labelled io.nanocl.job=<that job's name>, whatever a concurrent
\* create of a job of that name has done.
C16_DeleteCascades ==
  [][(dl.pc = "removing" /\ dl'.pc = "done" /\ dl'.res = "ok")
     => \A c \in containers' : LabelGet(c.labels, JobLabel) # Some(dl.name)]_vars

\* C17: a delete_by_name that follows one that failed on an instance removal
\* finds the Job record still there, and when every removal of its own
\* succeeds it returns Ok with the Job record deleted and no instance of the
\* job left in the runtime.
C17_DeleteRetry ==
  [][/\ (dl'.pc = "done" /\ dl'.res = "err_remove") => store'[dl'.name] # None
     /\ dl'.prev = "err_remove" => dl'.res # "err_not_found"
     /\ (/\ dl.pc = "removing" /\ dl'.pc = "done"
         /\ dl.prev = "err_remove"
         /\ \A k \in 1..Len(dl.fut) : dl.fut[k] = "ok")
        => /\ dl'.res = "ok"
           /\ store'[dl.name] = None
           /\ \A c \in containers' : LabelGet(c.labels, JobLabel) # Some(dl.name)]_vars

\* The retry of a delete_by_name that failed on a removal has removed the
\* instance that was left and returned Ok; the Job record is deleted.
C17_Witness ==
  /\ dl.pc = "done" /\ dl.res = "ok" /\ dl.prev = "err_remove"
  /\ Len(dl.listed) >= 1
  /\ store[dl.name] = None
  /\ \A c \in containers : LabelGet(c.labels, JobLabel) # Some(dl.name)

\* C18: when create has returned an error because a create call failed, the
\* Job record it persisted is in the store, and the create called next with
\* the same name meets that record: the store refuses it and no record is
\* written.
C18_RecordKept ==
  /\ (cr.pc = "done" /\ cr.res = "err_create") =>
       store[cr.item.name] = Some(JobRecord(cr.item.name, cr.item.containers))
  /\ cr.prev = "err_create" =>
       /\ cr.pc = "done" /\ cr.res = "err_conflict"
       /\ store[cr.item.name] # None
       /\ calls = <<>>

\* The retry of a create that failed on a create call was refused: a Job of
\* that name exists.
C18_Witness ==
  /\ cr.pc = "done" /\ cr.res = "err_conflict" /\ cr.prev = "err_create"
  /\ store[cr.item.name] # None

\* C19: whatever the order in which the inspect calls complete,
\* inspect_instances returns an error when the inspect call of one instance
\* failed, and nothing is started from the pairs that were built; otherwise
\* it returns one (detail, summary) pair for every listed instance.
C19_InspectAllOrError ==
  LET returned == st.pc = "start" \/ (st.pc = "done" /\ st.res \in {"ok", "err_start", "err_inspect"})
      failed == \E k \in 1..Len(st.vec) : ~st.vec[k].ok
  IN returned =>
       /\ Len(st.vec) = Len(st.listed)
       /\ failed => (st.pc = "done" /\ st.res = "err_inspect" /\ st.fut = <<>>)
       /\ ~failed =>
            /\ st.res # "err_inspect"
            /\ Len(st.fut) = Len(st.listed)
            /\ \A k \in 1..Len(st.listed) :
                 Cardinality({r \in 1..Len(st.vec) :
                                /\ st.vec[r].summary = st.listed[k]
                                /\ st.vec[r].id = st.listed[k].id}) = 1

\* inspect_instances returned an error over two instances: the inspect call
\* that completed first failed, the one that completed after it succeeded.
C19_Witness ==
  /\ st.pc = "done" /\ st.res = "err_inspect"
  /\ Len(st.vec) = 2
  /\ ~st.vec[1].ok /\ st.vec[2].ok

\* C20: the request of every create_container call of create carries the
\* label io.nanocl.job with the job's name as its one value, and apart from
\* that key it carries the labels of the container specification, each with
\* its value, and no other; the container created has the labels of the
\* request.
C20_JobLabel ==
  [][\A k \in 1..Len(cr.fut) :
       (cr.pc = "creating" /\ cr.fut[k] = "todo" /\ cr'.fut[k] # "todo") =>
         LET user == UnwrapOr(cr.item.containers[k].labels, {})
             request == CreateLabels(cr.item.containers[k], cr.item.name)
         IN /\ \A p \in request : p[1] = JobLabel <=> p = <<JobLabel, cr.item.name>>
            /\ <<JobLabel, cr.item.name>> \in request
            /\ {p \in request : p[1] # JobLabel} = {p \in user : p[1] # JobLabel}
            /\ cr'.fut[k] = "ok" =>
                 \E c \in containers' \ containers :
                   c.id = cr'.made[k] /\ c.labels = request]_vars

\* create has created a container from a specification whose labels gave
\* io.nanocl.job the value "job2" and app the value "web": it is labelled
\* io.nanocl.job=job1 and app=web.
C20_Witness ==
  /\ cr.pc \in {"creating", "done"}
  /\ cr.item.name = "job1"
  /\ \E k \in 1..Len(cr.fut) :
       /\ cr.fut[k] = "ok"
       /\ cr.item.containers[k].labels = Some({<<JobLabel, "job2">>, <<"app", "web">>})
       /\ \E c \in containers :
            c.id = cr.made[k] /\ c.labels = {<<JobLabel, "job1">>, <<"app", "web">>}

\* ------------------------------------------- the merged stream, consumed

\* The consumer keeps polling the merged stream: an element that is pending
\* on an instance's stream is delivered, and the end of the merged stream is
\* noticed.
FairStream ==
  /\ WF_vars(MergeEnd)
  /\ \A k \in 1..MaxInst + 1 : WF_vars(MergeNext(k))

\* logs_by_name and wait with a consumer that reads the merged stream to its
\* end.
SpecStreamLive == InitStream /\ [][NextStream]_vars /\ FairStream

\* No instance's mapped stream has yielded an error: every element the
\* runtime sent is mapped to a record.
NoStreamError ==
  /\ \A i \in 1..Len(sm.merged) : sm.merged[i].item.ok
  /\ \A k \in 1..Len(sm.listed) :
       \A i \in 1..Len(sm.queue[k]) : MapElem(sm.kind, sm.listed[k], sm.queue[k][i]).ok

\* Every instance's stream has terminated.
AllTerminated == \A k \in 1..Len(sm.listed) : sm.fin[k]

\* Each element an instance's stream produced is either pending or delivered
\* once; when the merged stream has ended each is delivered once, and every
\* instance's stream has terminated.
DeliveredOnce ==
  (sm.pc \in {"open", "ended"} /\ NoStreamError) =>
    /\ \A k \in 1..Len(sm.listed) :
         \A n \in 1..sm.sent[k] :
           Cardinality({i \in 1..Len(sm.merged) :
                          sm.merged[i].src = sm.listed[k].id /\ sm.merged[i].raw.seq = n})
           + Cardinality({i \in 1..Len(sm.queue[k]) : sm.queue[k][i].seq = n}) = 1
    /\ Len(sm.merged) + TotalPending = TotalSent
    /\ sm.pc = "ended" =>
         /\ sm.res = "eos"
         /\ AllTerminated
         /\ Len(sm.merged) = TotalSent
    /\ sm.listed = <<>> => sm.merged = <<>>

\* C21: while no instance's stream yields an error, the merged log or wait
\* stream delivers every element every instance's stream produced exactly
\* once; it does not end before every instance's stream has terminated, and
\* once they all have it ends, with every element delivered (at once and
\* with no element when there is no instance).
C21_MergedComplete ==
  /\ []DeliveredOnce
  /\ (sm.pc = "open" /\ AllTerminated /\ NoStreamError)
       ~> (sm.pc = "ended" /\ sm.res = "eos" /\ Len(sm.merged) = TotalSent)

\* The merged stream ended after it delivered three elements of two
\* instances, none of them an error.
C21_Witness ==
  /\ sm.pc = "ended" /\ sm.res = "eos"
  /\ Len(sm.listed) = 2
  /\ Len(sm.merged) = 3
  /\ \A k \in 1..2 : sm.sent[k] >= 1
  /\ NoStreamError

\* ----------------------------------------------------------- Context::use

\* The context names given to Context::use.
ContextNames == {"default", "dev"}

\* A text as the sequence of its tokens. The texts a context file may hold:
\* the YAML of a context, or text that is no context.
ContextTexts == {<<"Name", ":", "dev">>, <<"Name", ":">>}

\* serde_yaml::from_str::<Context>: the context a text denotes, or a parse
\* error.
ParseContext(text) ==
  IF Len(text) = 3 /\ text[1] = "Name" /\ text[2] = ":"
  THEN [ok |-> TRUE, context |-> [name |-> text[3]], err |-> ""]
  ELSE [ok |-> FALSE, context |-> [name |-> ""], err |-> "parse"]

\* Context::read: read_to_string, then the parse; the error of a parse is an
\* InvalidData error.
ContextRead(file) ==
  IF file = None THEN [ok |-> FALSE, err |-> "not_found"]
  ELSE IF ~ParseContext(file[1]).ok THEN [ok |-> FALSE, err |-> "invalid_data"]
  ELSE [ok |-> TRUE, err |-> ""]

\* Context::read_by_name: the file $HOME/.nanocl/contexts/{name}.yml.
ReadByName(files, name) == ContextRead(files.contexts[name])

\* serde_yaml::to_string of the user configuration.
SerializeConfig(config) == <<"CurrentContext", ":", config.current_context>>

\* Whether Context::use reads the context file of a name.
ReadsContextAlways(name) == TRUE

\* Whether Context::use reads the context file of a name: of every name but
\* "default".
ReadsContext(name) == name # "default"

\* Context::use is called: $HOME is read from the environment.
Use(name) ==
  /\ cx.pc \in {"idle", "done"}
  /\ ops < MaxOps
  /\ ops' = ops + 1
  /\ IF ~fs.home
     THEN cx' = [pc |-> "done", name |-> name, res |-> "err_home"]
     ELSE cx' = [pc |-> IF ReadsContext(name) THEN "read" ELSE "write",
                 name |-> name, res |-> "none"]
  /\ UNCHANGED <<store, containers, calls, nextId, st, cr, dl, sm, cn, ls, ib, fs, mt>>

\* Context::read_by_name answers: an error is returned as an InvalidData
\* error.
UseRead ==
  /\ cx.pc = "read"
  /\ IF ~ReadByName(fs, cx.name).ok
     THEN cx' = [cx EXCEPT !.pc = "done", !.res = "err_context"]
     ELSE cx' = [cx EXCEPT !.pc = "write"]
  /\ UNCHANGED <<store, containers, calls, nextId, st, cr, dl, sm, cn, ls, ib, fs, mt, ops>>

\* The outcomes of serializing and writing the configuration: the file is
\* written, the serialization failed, the file could not be opened, or it was
\* truncated and the write failed.
WriteOutcomes == {"ok", "err_serialize", "err_open", "err_write"}

\* The configuration with the current context set is serialized and written
\* to $HOME/.nanocl/conf.yml.
UseWrite(outcome) ==
  /\ cx.pc = "write"
  /\ LET config == [current_context |-> cx.name]
     IN fs' = [fs EXCEPT !.conf = CASE outcome = "ok" -> Some(SerializeConfig(config))
                                    [] outcome \in {"err_serialize", "err_open"} -> @
                                    [] OTHER -> Some(<<>>)]
  /\ cx' = [cx EXCEPT !.pc = "done", !.res = outcome]
  /\ UNCHANGED <<store, containers, calls, nextId, st, cr, dl, sm, cn, ls, ib, mt, ops>>

\* The user's environment and files: $HOME set or not, each context file
\* absent or holding a text, and no conf.yml yet.
InitContext ==
  /\ store = EmptyStore
  /\ containers = {}
  /\ calls = <<>>
  /\ nextId = 1
  /\ st = StIdle
  /\ cr = CrIdle
  /\ dl = DlIdle
  /\ sm = SmIdle
  /\ cn = CnIdle
  /\ ls = LsIdle
  /\ ib = IbIdle
  /\ \E home \in BOOLEAN : \E contexts \in [ContextNames -> OptionOf(ContextTexts)] :
       fs = [home |-> home, contexts |-> contexts, conf |-> None]
  /\ cx = CxIdle
  /\ mt = MtIdle
  /\ ops = 0

NextContext ==
  \/ \E name \in ContextNames : Use(name)
  \/ UseRead
  \/ \E outcome \in WriteOutcomes : UseWrite(outcome)

\* Context::use called one time after another.
SpecContext == InitContext /\ [][NextContext]_vars

\* C22: Context::use with a name other than "default" whose context file is
\* absent or holds no context returns an error and leaves conf.yml, like
\* every other file, as it was; with the name "default" (and $HOME set) it
\* reads no context file and goes on to write the configuration, whose
\* current context is "default" when the write succeeds.
C22_UseChecksContext ==
  [][/\ \A name \in ContextNames \ {"default"} :
          (/\ cx'.name = name
           /\ cx'.pc # "idle"
           /\ fs.contexts[name] \in {None, Some(<<"Name", ":">>)})
          => /\ fs' = fs
             /\ cx'.pc \in {"read", "done"}
             /\ cx'.pc = "done" => cx'.res \in {"err_home", "err_context"}
     /\ (cx.pc \in {"idle", "done"} /\ cx'.name = "default" /\ ops' = ops + 1 /\ fs.home)
          => cx'.pc = "write" /\ fs' = fs
     /\ (cx.pc = "write" /\ cx.name = "default" /\ cx'.res = "ok")
          => fs'.conf = Some(<<"CurrentContext", ":", "default">>)
     /\ fs'.contexts = fs.contexts]_vars

\* Context::use("default") wrote conf.yml with no context file of that
\* name, and then Context::use("dev") on a context file that does not parse
\* returned an error: conf.yml still names "default".
C22_Witness ==
  /\ cx.pc = "done" /\ cx.name = "dev" /\ cx.res = "err_context"
  /\ fs.contexts["dev"] = Some(<<"Name", ":">>)
  /\ fs.contexts["default"] = None
  /\ fs.conf = Some(<<"CurrentContext", ":", "default">>)

\* ------------------------------------- MetricNodePartial::try_new_node

\* The characters of a metric kind: a letter, the dot and the separator.
KindChars == {"a", ".", "/"}

\* The metric kinds, as sequences of characters of length 0..MaxKind.
Kinds == UNION {[1..n -> KindChars] : n \in 0..MaxKind}

\* str::split('/'): the parts between the separators, the empty ones
\* included; a string with no separator is its one part.
RECURSIVE Split(_)
Split(chars) ==
  IF \A i \in 1..Len(chars) : chars[i] # "/" THEN <<chars>>
  ELSE LET i == CHOOSE j \in 1..Len(chars) :
                  chars[j] = "/" /\ \A h \in 1..(j - 1) : chars[h] # "/"
       IN <<SubSeq(chars, 1, i - 1)>> \o Split(SubSeq(chars, i + 1, Len(chars)))

\* A check that refuses a kind of fewer than two parts only.
KindRefusedFewer(kind) == Len(Split(kind)) < 2

\* The check of try_new_node: the kind is refused unless it splits in two.
KindRefused(kind) == Len(Split(kind)) # 2

\* MetricNodePartial::try_new_node
TryNewNode(node_name, item) ==
  /\ mt.pc = "idle"
  /\ mt' = [pc |-> "done", node_name |-> node_name, item |-> item,
            ret |-> IF KindRefused(item.kind)
                    THEN [ok |-> FALSE, err |-> "invalid_data"]
                    ELSE [ok |-> TRUE,
                          val |-> [node_name |-> node_name, kind |-> item.kind,
                                   data |-> item.data]]]
  /\ UNCHANGED <<store, containers, calls, nextId, st, cr, dl, sm, cn, ls, ib, fs, cx, ops>>

InitMetric ==
  /\ store = EmptyStore
  /\ containers = {}
  /\ calls = <<>>
  /\ nextId = 1
  /\ st = StIdle
  /\ cr = CrIdle
  /\ dl = DlIdle
  /\ sm = SmIdle
  /\ cn = CnIdle
  /\ ls = LsIdle
  /\ ib = IbIdle
  /\ fs = FsNone
  /\ cx = CxIdle
  /\ mt = MtIdle
  /\ ops = 0

NextMetric ==
  \E node_name \in {"n1", "n2"}, kind \in Kinds, data \in {0, 1} :
    TryNewNode(node_name, [kind |-> kind, data |-> data])

\* try_new_node applied to a node name and a metric.
SpecMetric == InitMetric /\ [][NextMetric]_vars

\* C23: try_new_node returns an invalid-data error for every kind that does
\* not hold exactly one '/' (none, or two and more), and for every kind that
\* holds exactly one, whatever stands on either side of it, a partial whose
\* node_name, kind and data are the inputs.
C23_KindForm ==
  mt.pc = "done" =>
    LET slashes == Cardinality({i \in 1..Len(mt.item.kind) : mt.item.kind[i] = "/"})
    IN IF slashes = 1
       THEN mt.ret = [ok |-> TRUE,
                      val |-> [node_name |-> mt.node_name, kind |-> mt.item.kind,
                               data |-> mt.item.data]]
       ELSE mt.ret = [ok |-> FALSE, err |-> "invalid_data"]

\* try_new_node returned the partial of the kind "a.a/a" on node "n2".
C23_Witness ==
  /\ mt.pc = "done"
  /\ mt.item.kind = <<"a", ".", "a", "/", "a">>
  /\ mt.ret.ok
  /\ mt.ret.val = [node_name |-> "n2", kind |-> <<"a", ".", "a", "/", "a">>, data |-> 1]

====
